---- MODULE Spec2Model ----
(***************************************************************************)
(* Model of dmoop (dynamic multi-objective optimisation): the constructs   *)
(* of dmoop/base/construct.py and the allocation pipeline of               *)
(* dmoop/linear/allocation.py (delta -> beta -> epsilon -> factor).        *)
(*                                                                         *)
(* Numbers.  numpy's float64 values are modelled as extended rationals:    *)
(* a pair <<n, d>> in lowest terms with d > 0 is the number n/d,           *)
(* <<1, 0>> is +inf, <<-1, 0>> is -inf and <<0, 0>> is nan.  Arithmetic    *)
(* follows IEEE-754 on the special values (x/0 = +-inf, 0/0 = nan,         *)
(* inf*0 = nan, inf-inf = nan, x/inf = 0).  Rounding error of finite       *)
(* arithmetic and the sign of zero are not modelled; the inputs are        *)
(* integers, for which no -0.0 operand reaches a division.                 *)
(***************************************************************************)
EXTENDS Integers, Sequences, FiniteSets, TLC

(***************************************************************************)
(* Bounds of the model.                                                    *)
(***************************************************************************)
\* entries of the generated input matrices are drawn from 0..MaxVal
MaxVal == 2
\* generated input matrices have at most MaxCells entries (rows * columns)
MaxCells == 4

(***************************************************************************)
(* Extended rational arithmetic (float64 as used by numpy).                *)
(***************************************************************************)
Abs(n) == IF n < 0 THEN -n ELSE n

Sgn(n) == IF n < 0 THEN -1 ELSE IF n > 0 THEN 1 ELSE 0

RECURSIVE GCD(_, _)
GCD(a, b) == IF b = 0 THEN a ELSE GCD(b, a % b)

Norm(n, d) ==
    IF d = 0 THEN <<Sgn(n), 0>>
    ELSE LET s == IF d < 0 THEN -1 ELSE 1
             g == GCD(Abs(n), Abs(d))
         IN  <<(s * n) \div g, (s * d) \div g>>

R(n) == <<n, 1>>

PInf == <<1, 0>>

NInf == <<-1, 0>>

NaN == <<0, 0>>

IsFinite(a) == a[2] # 0

RNeg(a) == <<-a[1], a[2]>>

RAbs(a) == <<Abs(a[1]), a[2]>>

RAdd(a, b) ==
    IF a[2] = 0 /\ b[2] = 0
    THEN (IF a = b THEN a ELSE NaN)
    ELSE Norm(a[1] * b[2] + b[1] * a[2], a[2] * b[2])

RSub(a, b) == RAdd(a, RNeg(b))

RMul(a, b) == Norm(a[1] * b[1], a[2] * b[2])

RRecip(a) == Norm(a[2], a[1])

RDiv(a, b) == RMul(a, RRecip(b))

\* a < b as float64 compares: every comparison with nan is false
RLt(a, b) ==
    IF a[2] = 0 /\ b[2] = 0
    THEN a = NInf /\ b = PInf
    ELSE a[1] * b[2] < b[1] * a[2]

\* numpy.rint: round to the nearest integer, ties to the even one
Rint(a) ==
    IF ~IsFinite(a) THEN a
    ELSE LET f == a[1] \div a[2]
             r2 == 2 * (a[1] - f * a[2])
         IN  IF r2 < a[2] THEN R(f)
             ELSE IF r2 > a[2] THEN R(f + 1)
             ELSE IF f % 2 = 0 THEN R(f) ELSE R(f + 1)

RECURSIVE Pow10(_)
Pow10(k) == IF k = 0 THEN 1 ELSE 10 * Pow10(k - 1)

\* numpy.round(a, decimals) for decimals >= 0
RRound(a, decimals) ==
    RDiv(Rint(RMul(a, R(Pow10(decimals)))), R(Pow10(decimals)))

(***************************************************************************)
(* Vectors (rows) are sequences of numbers, matrices sequences of rows.    *)
(***************************************************************************)
\* a numpy array is computed when it is built: Arr(f) is the sequence of the
\* values of f, each evaluated once
Arr(f) == f \o <<>>

RECURSIVE VSum(_)
VSum(v) == IF v = <<>> THEN R(0) ELSE RAdd(VSum(SubSeq(v, 1, Len(v) - 1)), v[Len(v)])

RECURSIVE VMax(_)
VMax(v) ==
    IF Len(v) = 1 THEN v[1]
    ELSE LET m == VMax(SubSeq(v, 1, Len(v) - 1))
         IN  IF RLt(m, v[Len(v)]) THEN v[Len(v)] ELSE m

RECURSIVE VMin(_)
VMin(v) ==
    IF Len(v) = 1 THEN v[1]
    ELSE LET m == VMin(SubSeq(v, 1, Len(v) - 1))
         IN  IF RLt(v[Len(v)], m) THEN v[Len(v)] ELSE m

VMean(v) == RDiv(VSum(v), R(Len(v)))

Min2(a, b) == IF a < b THEN a ELSE b

\* numpy.prod(m, axis = 0) of a matrix with at least one row
RECURSIVE ColProd(_, _)
ColProd(m, j) ==
    IF Len(m) = 1 THEN m[1][j]
    ELSE RMul(ColProd(SubSeq(m, 1, Len(m) - 1), j), m[Len(m)][j])

ProdAxis0(m) == Arr([j \in 1..Len(m[1]) |-> ColProd(m, j)])

(***************************************************************************)
(* Inputs.                                                                 *)
(***************************************************************************)
Vals == 0..MaxVal

\* row counts offered to the constructors: the two rows Linear2DAllocation
\* supports, one fewer and one more
RowCounts == 1..3

Matrices(r, c) == [1..r -> [1..c -> Vals]]

\* the concrete scenario of the specification: capacity and cost of three vendors
Scenario == <<<<10, 20, 30>>, <<5, 3, 1>>>>

\* a maximize row whose small entry lies further from the row mean than from 0
Skewed == <<<<1, 5>>, <<1, 1>>>>

XsArgs ==
    {Scenario, Skewed} \cup
    UNION {UNION {Matrices(r, c) : c \in {k \in 1..MaxCells : r * k <= MaxCells}} :
           r \in RowCounts}

SenseVals == {-1, 1}

\* a senses argument is a scalar (broadcast by the constructor) or a sequence
SensesArgs ==
    {[scalar |-> TRUE, val |-> <<s>>] : s \in SenseVals} \cup
    {[scalar |-> FALSE, val |-> v] : v \in UNION {[1..n -> SenseVals] : n \in RowCounts}}

\* keyword arguments read by delta; "absolute" is carried as the caller passed it
DefaultKw == [methods |-> <<"mean", "mean">>, factors |-> <<1, 1>>, absolute |-> "unset"]

\* methods: one reduction per row, one too few, one too many
MethodsArgs == {<<"max", "min">>, <<"mean">>, <<"max", "min", "mean">>}

FactorsArgs == {<<0, 0>>, <<2, 1>>}

KwArgs ==
    {DefaultKw} \cup
    {[DefaultKw EXCEPT !.methods = m] : m \in MethodsArgs} \cup
    {[DefaultKw EXCEPT !.factors = f] : f \in FactorsArgs} \cup
    {[DefaultKw EXCEPT !.absolute = a] : a \in {"True", "False"}}

\* ndigits: <<>> is None, <<k>> is the integer k
NdigitsArgs == {<<>>, <<0>>, <<1>>}

\* the default grid of factor, mround = 0.05
MroundDefault == <<1, 20>>

(***************************************************************************)
(* Construction: dmoop/linear/allocation.py and dmoop/base/construct.py.   *)
(***************************************************************************)
\* numpy.array(array, dtype = float): the integer entries become floats
ToFloat(array) ==
    Arr([i \in 1..Len(array) |-> Arr([j \in 1..Len(array[i]) |-> R(array[i][j])])])

\* Linear2DAllocation._xs: the assertion on the number of rows
L2D_xs_ok(array) == Len(array) = 2

\* Linear2DAllocation._senses: a sequence is taken as it is, a scalar is
\* broadcast over the rows of xs; the length is not compared with anything
L2D_senses(nrows, sensesArg) ==
    IF sensesArg.scalar THEN [i \in 1..nrows |-> sensesArg.val[1]] ELSE sensesArg.val

\* BaseConstruct._senses: the same conversion ...
Base_senses(nrows, sensesArg) ==
    IF sensesArg.scalar THEN [i \in 1..nrows |-> sensesArg.val[1]] ELSE sensesArg.val

\* ... followed by the assertion that there is one sense per row of xs
Base_senses_ok(nrows, sensesArg) == Len(Base_senses(nrows, sensesArg)) = nrows

(***************************************************************************)
(* The pipeline of Linear2DAllocation.                                     *)
(***************************************************************************)
\* __describe_array__: dispatch of the aggregation function
describe_array(x, method) ==
    CASE method = "mean" -> VMean(x)
      [] method = "max" -> VMax(x)
      [] method = "min" -> VMin(x)

\* rows of the list comprehension of delta: zip stops at the shorter of
\* methods and xs
DeltaZipLen(xs_, kw) == Min2(Len(kw.methods), Len(xs_))

\* numpy broadcasting of a (k, q) array with the (m, 1) column of factors
BroadcastOk(k, m) == k = m \/ k = 1 \/ m = 1

BroadcastRows(k, m) == IF k = 1 THEN m ELSE k

\* Linear2DAllocation.delta: defined when the broadcast is
delta_ok(xs_, kw) == BroadcastOk(DeltaZipLen(xs_, kw), Len(kw.factors))

\* (variant used to test C9: the deviation keeps its sign on absolute=False)
delta_signed(xs_, kw) ==
    LET k == DeltaZipLen(xs_, kw)
        m == Len(kw.factors)
        dev == Arr([i \in 1..k |-> Arr([j \in 1..Len(xs_[i]) |->
                  LET dv == RSub(xs_[i][j], describe_array(xs_[i], kw.methods[i]))
                  IN  IF kw.absolute = "False" THEN dv ELSE RAbs(dv)])])
    IN  Arr([i \in 1..BroadcastRows(k, m) |-> Arr([j \in 1..Len(xs_[1]) |->
            RMul(dev[IF k = 1 THEN 1 ELSE i][j], R(kw.factors[IF m = 1 THEN 1 ELSE i]))])])

delta(xs_, kw) ==
    LET k == DeltaZipLen(xs_, kw)
        m == Len(kw.factors)
        dev == Arr([i \in 1..k |->
                  LET described == describe_array(xs_[i], kw.methods[i])
                  IN  Arr([j \in 1..Len(xs_[i]) |-> RAbs(RSub(xs_[i][j], described))])])
    IN  Arr([i \in 1..BroadcastRows(k, m) |-> Arr([j \in 1..Len(xs_[1]) |->
            RMul(dev[IF k = 1 THEN 1 ELSE i][j], R(kw.factors[IF m = 1 THEN 1 ELSE i]))])])

\* the list comprehension of beta: one row of contributions per zipped
\* (sense, x, d); zip stops at the shortest of senses, xs and delta
beta_rows(xs_, senses_, d) ==
    LET n == Min2(Len(senses_), Min2(Len(xs_), Len(d)))
    IN  Arr([i \in 1..n |-> Arr([j \in 1..Len(xs_[i]) |->
            IF senses_[i] = -1
            THEN RDiv(R(1), RAdd(xs_[i][j], d[i][j]))
            ELSE RSub(xs_[i][j], d[i][j])])])

\* (variant used to test C8: infinities are left in the array)
clamp_inf_none(m) == m

\* np.where(beta == np.inf, 0, beta)
clamp_inf(m) == Arr([i \in 1..Len(m) |-> Arr([j \in 1..Len(m[i]) |->
                    IF m[i][j] = PInf THEN R(0) ELSE m[i][j]])])

\* "np.round(beta, ndigits) if ndigits else beta": None and 0 are both false
round_if(v, ndigits) ==
    IF ndigits # <<>> /\ ndigits[1] # 0
    THEN Arr([j \in 1..Len(v) |-> RRound(v[j], ndigits[1])])
    ELSE v

\* Linear2DAllocation.beta
beta(xs_, senses_, ndigits, kw) ==
    round_if(ProdAxis0(clamp_inf(beta_rows(xs_, senses_, delta(xs_, kw)))), ndigits)

\* the driver of epsilon and factor: method(x) / x, element-wise
driver(x, method) ==
    LET described == describe_array(x, method)
    IN  Arr([j \in 1..Len(x) |-> RDiv(described, x[j])])

VDiv(a, b) == Arr([j \in 1..Len(a) |-> RDiv(a[j], b[j])])

\* Linear2DAllocation.epsilon
epsilon(xs_, senses_, index, method, ndigits, kw) ==
    VDiv(beta(xs_, senses_, ndigits, kw), driver(xs_[index + 1], method))

\* (variant used to test C1: no driver, the weights are left as beta)
factor_epsilon_unit(x, method, appreciate, b) == Arr([j \in 1..Len(x) |-> R(1)])

\* factor: "_epsilon = _epsilon / _x if appreciate else _beta"
factor_epsilon(x, method, appreciate, b) ==
    IF appreciate THEN driver(x, method) ELSE b

\* factor: appreciated_value = _beta / _epsilon, from the _beta computed
appreciate_beta(x, method, appreciate, b) ==
    VDiv(b, factor_epsilon(x, method, appreciate, b))

\* factor: _beta = self.beta(...), then the appreciated value
appreciated_value(xs_, senses_, appreciate, index, method, ndigits, kw) ==
    appreciate_beta(xs_[index + 1], method, appreciate, beta(xs_, senses_, ndigits, kw))

\* factor: percentage_allocation = appreciated_value / appreciated_value.sum()
percentage_allocation(raw) ==
    LET total == VSum(raw)
    IN  Arr([j \in 1..Len(raw) |-> RDiv(raw[j], total)])

\* factor: percentage_allocation_rounded = mround * np.round(percentage_allocation / mround)
percentage_allocation_rounded(share, mround) ==
    Arr([j \in 1..Len(share) |-> RMul(mround, Rint(RDiv(share[j], mround)))])

(***************************************************************************)
(* Outlier treatment of the constructor: Linear2DAllocation.__treat_outliers__ *)
(***************************************************************************)
\* the k-th smallest entry of a vector of finite values
KthSmallest(v, k) ==
    LET i == CHOOSE i \in 1..Len(v) :
                 /\ Cardinality({m \in 1..Len(v) : RLt(v[m], v[i])}) < k
                 /\ k <= Cardinality({m \in 1..Len(v) : ~RLt(v[i], v[m])})
    IN  v[i]

\* numpy.quantile(v, p) with its default linear interpolation, 0 <= p <= 1
quantile(v, p) ==
    LET h == RMul(R(Len(v) - 1), p)
        lo == h[1] \div h[2]
        frac == RSub(h, R(lo))
        a == KthSmallest(v, lo + 1)
    IN  IF frac = R(0) THEN a
        ELSE RAdd(a, RMul(frac, RSub(KthSmallest(v, lo + 2), a)))

\* the default of the keyword outlier_bounds: (0.25, 0.75)
OutlierBoundsDefault == <<Norm(1, 4), Norm(3, 4)>>

\* the values of the keyword outlier_direction (one string for all rows)
DirectionArgs == {"both", "left", "right", "none"}

\* __treat_outliers__: the first branch takes "left" and "both", the second
\* is reached by "right" only, any other value keeps the row
treat_outliers(xs_, bounds, direction) ==
    Arr([i \in 1..2 |->
        LET array == xs_[i]
            l_quartile == quantile(array, bounds[1])
            u_quartile == quantile(array, bounds[2])
        IN  IF direction \in {"left", "both"}
            THEN Arr([j \in 1..Len(array) |->
                     IF RLt(l_quartile, array[j]) THEN R(0) ELSE array[j]])
            ELSE IF direction \in {"right", "both"}
            THEN Arr([j \in 1..Len(array) |->
                     IF RLt(array[j], u_quartile) THEN array[j] ELSE R(0)])
            ELSE array])

(***************************************************************************)
(* The factors of the simple models: dmoop/factors/linear.py and           *)
(* dmoop/factors/nonlinear.py.                                             *)
(***************************************************************************)
\* linear.alpha: np.prod(np.where(senses == -1, 1/xs, xs), axis = 0)
alpha(xs_, senses_) ==
    ProdAxis0(Arr([i \in 1..Len(xs_) |-> Arr([j \in 1..Len(xs_[i]) |->
        IF senses_[i] = -1 THEN RDiv(R(1), xs_[i][j]) ELSE xs_[i][j]])]))

\* nonlinear.delta is given a callable, or a sequence indexed by the row
\* number: a sequence shorter than xs has rows raises IndexError
nl_delta_ok(xs_, method) == method.callable \/ Len(method.val) >= Len(xs_)

\* nonlinear.delta with addonbase and reciprocal at their defaults (True)
nl_delta(xs_, senses_, method, absolute) ==
    ProdAxis0(Arr([i \in 1..Len(xs_) |-> Arr([j \in 1..Len(xs_[i]) |->
        LET m == IF method.callable THEN method.val[1] ELSE method.val[i]
            dv == RSub(xs_[i][j], describe_array(xs_[i], m))
            f == RAdd(xs_[i][j], IF absolute THEN RAbs(dv) ELSE dv)
        IN  IF senses_[i] = -1 THEN RDiv(R(1), f) ELSE f])]))

\* the method argument of DeltaNonLinearOptimizer.fit
NlMethodArgs ==
    {[callable |-> TRUE, val |-> <<"mean">>]} \cup
    {[callable |-> FALSE, val |-> [i \in 1..n |-> "mean"]] : n \in RowCounts}

(***************************************************************************)
(* State: one optimizer object and its caller.  The caller constructs the  *)
(* object, then calls its methods one after the other; every call returns  *)
(* freshly allocated arrays, which the caller holds until it drops them.   *)
(***************************************************************************)
VARIABLES
    cls,      \* class of the object: "none" before the constructor is called
    status,   \* "new", "ok" (constructed) or "AssertionError" (constructor raised)
    xs,       \* self.xs
    senses,   \* self.senses, a column kept as a sequence
    N,        \* self.N
    q,        \* self.q
    fitted,   \* self.alpha / self.delta, the attribute fit sets (<<>> before)
    call,     \* the method call the caller made last, with its arguments
    ret,      \* what that call returned
    seen,     \* the triple of the first default factor() call, kept by a caller who compares
    args      \* the constructor's arguments, kept by a caller who compares

vars == <<cls, status, xs, senses, N, q, fitted, call, ret, seen, args>>

NoCall == [op |-> "none", kw |-> DefaultKw, ndigits |-> <<>>, index |-> 0,
           appreciate |-> TRUE, mround |-> MroundDefault]

NoRet == [raised |-> "none", delta |-> <<>>, beta |-> <<>>, raw |-> <<>>,
          share |-> <<>>, rounded |-> <<>>]

NoSeen == [set |-> FALSE, ret |-> NoRet, between |-> FALSE]

NoArgs == [xs |-> <<>>, drop_outliers |-> FALSE, direction |-> "both"]

Init ==
    /\ cls = "none"
    /\ status = "new"
    /\ xs = <<>>
    /\ senses = <<>>
    /\ N = 0
    /\ q = 0
    /\ fitted = <<>>
    /\ call = NoCall
    /\ ret = NoRet
    /\ seen = NoSeen
    /\ args = NoArgs

\* an assertion of the constructor failed: no object exists
Failed(c) ==
    /\ cls' = c
    /\ status' = "AssertionError"
    /\ UNCHANGED <<xs, senses, N, q, fitted, call, ret, seen, args>>

\* Linear2DAllocation.__init__ (drop_outliers left at its default)
NewLinear2DAllocation ==
    /\ status = "new"
    /\ \E xsArg \in XsArgs, sensesArg \in SensesArgs :
         IF L2D_xs_ok(xsArg)
         THEN /\ cls' = "Linear2DAllocation"
              /\ status' = "ok"
              /\ xs' = ToFloat(xsArg)
              /\ senses' = L2D_senses(Len(xsArg), sensesArg)
              /\ N' = 2
              /\ q' = Len(xsArg[1])
              /\ UNCHANGED <<fitted, call, ret, seen, args>>
         ELSE Failed("Linear2DAllocation")

\* Linear2DAllocation.__init__ with the keywords drop_outliers and
\* outlier_direction given (outlier_bounds at its default); the caller keeps
\* what was passed
NewLinear2DAllocationKw ==
    /\ status = "new"
    /\ \E xsArg \in XsArgs, sensesArg \in SensesArgs,
          drop \in BOOLEAN, direction \in DirectionArgs :
         IF L2D_xs_ok(xsArg)
         THEN /\ cls' = "Linear2DAllocation"
              /\ status' = "ok"
              /\ xs' = IF drop
                       THEN treat_outliers(ToFloat(xsArg), OutlierBoundsDefault, direction)
                       ELSE ToFloat(xsArg)
              /\ senses' = L2D_senses(Len(xsArg), sensesArg)
              /\ N' = 2
              /\ q' = Len(xsArg[1])
              /\ args' = [xs |-> xsArg, drop_outliers |-> drop, direction |-> direction]
              /\ UNCHANGED <<fitted, call, ret, seen>>
         ELSE Failed("Linear2DAllocation")

BaseClasses == {"SimpleLinearOptimizer", "DeltaNonLinearOptimizer"}

\* BaseConstruct.__init__, reached through the subclasses' __init__
NewBaseConstruct ==
    /\ status = "new"
    /\ \E c \in BaseClasses, xsArg \in XsArgs, sensesArg \in SensesArgs :
         IF Base_senses_ok(Len(xsArg), sensesArg)
         THEN /\ cls' = c
              /\ status' = "ok"
              /\ xs' = ToFloat(xsArg)
              /\ senses' = Base_senses(Len(xsArg), sensesArg)
              /\ N' = Len(xsArg[1])
              /\ q' = Len(xsArg)
              /\ UNCHANGED <<fitted, call, ret, seen, args>>
         ELSE Failed(c)

IsL2D == cls = "Linear2DAllocation" /\ status = "ok"

\* the caller is not holding a result
Idle == call.op = "none"

\* a caller who holds a factor() triple notes that another method was called
NoteCall == seen' = IF seen.set THEN [seen EXCEPT !.between = TRUE] ELSE seen

\* a delta that stores the deviations in self.xs
Delta_inplace ==
    /\ IsL2D /\ Idle
    /\ \E kw \in KwArgs :
         /\ call' = [NoCall EXCEPT !.op = "delta", !.kw = kw]
         /\ ret' = IF delta_ok(xs, kw)
                   THEN [NoRet EXCEPT !.delta = delta(xs, kw)]
                   ELSE [NoRet EXCEPT !.raised = "ValueError"]
         /\ xs' = IF delta_ok(xs, kw) THEN delta(xs, kw) ELSE xs
    /\ NoteCall
    /\ UNCHANGED <<cls, status, senses, N, q, fitted, args>>

\* Linear2DAllocation.delta(**kwargs)
Delta ==
    /\ IsL2D /\ Idle
    /\ \E kw \in KwArgs :
         /\ call' = [NoCall EXCEPT !.op = "delta", !.kw = kw]
         /\ ret' = IF delta_ok(xs, kw)
                   THEN [NoRet EXCEPT !.delta = delta(xs, kw)]
                   ELSE [NoRet EXCEPT !.raised = "ValueError"]
    /\ NoteCall
    /\ UNCHANGED <<cls, status, xs, senses, N, q, fitted, args>>

\* Linear2DAllocation.beta(ndigits, **kwargs)
Beta ==
    /\ IsL2D /\ Idle
    /\ \E kw \in KwArgs, nd \in NdigitsArgs :
         /\ call' = [NoCall EXCEPT !.op = "beta", !.kw = kw, !.ndigits = nd]
         /\ ret' = IF delta_ok(xs, kw)
                   THEN [NoRet EXCEPT !.beta = beta(xs, senses, nd, kw)]
                   ELSE [NoRet EXCEPT !.raised = "ValueError"]
    /\ NoteCall
    /\ UNCHANGED <<cls, status, xs, senses, N, q, fitted, args>>

\* Linear2DAllocation.epsilon(index, method = np.mean, **kwargs)
Epsilon ==
    /\ IsL2D /\ Idle
    /\ \E kw \in KwArgs, index \in 0..1 :
         /\ call' = [NoCall EXCEPT !.op = "epsilon", !.kw = kw, !.index = index]
         /\ ret' = IF delta_ok(xs, kw)
                   THEN [NoRet EXCEPT !.raw = epsilon(xs, senses, index, "mean", <<>>, kw)]
                   ELSE [NoRet EXCEPT !.raised = "ValueError"]
    /\ NoteCall
    /\ UNCHANGED <<cls, status, xs, senses, N, q, fitted, args>>

\* Linear2DAllocation.factor(mround, appreciate, **kwargs); the beta it
\* computes on the way is kept in ret for reference
FactorCall ==
    /\ IsL2D /\ Idle
    /\ \E kw \in KwArgs, index \in 0..1, appreciate \in BOOLEAN :
         /\ call' = [NoCall EXCEPT !.op = "factor", !.kw = kw, !.index = index,
                                   !.appreciate = appreciate]
         /\ ret' = IF delta_ok(xs, kw)
                   THEN LET b == beta(xs, senses, <<>>, kw)
                            raw == appreciate_beta(xs[index + 1], "mean", appreciate, b)
                            share == percentage_allocation(raw)
                        IN  [NoRet EXCEPT
                               !.beta = b,
                               !.raw = raw,
                               !.share = share,
                               !.rounded = percentage_allocation_rounded(share, MroundDefault)]
                   ELSE [NoRet EXCEPT !.raised = "ValueError"]
    /\ UNCHANGED <<cls, status, xs, senses, N, q, fitted, args>>

\* factor called by a caller who keeps no earlier triple
Factor == FactorCall /\ UNCHANGED seen

\* factor with every argument at its default
DefaultFactorCall == [NoCall EXCEPT !.op = "factor"]

\* factor called by a caller who keeps the first triple obtained with every
\* argument at its default
FactorKeep ==
    /\ FactorCall
    /\ seen' = IF ~seen.set /\ call' = DefaultFactorCall
               THEN [NoSeen EXCEPT !.set = TRUE, !.ret = ret']
               ELSE seen

\* the caller drops the arrays the last call returned
Discard ==
    /\ ~Idle
    /\ call' = NoCall
    /\ ret' = NoRet
    /\ UNCHANGED <<cls, status, xs, senses, N, q, fitted, seen, args>>

IsModel(c) == cls = c /\ status = "ok"

\* SimpleLinearOptimizer.fit()
Fit ==
    /\ IsModel("SimpleLinearOptimizer") /\ Idle
    /\ call' = [NoCall EXCEPT !.op = "fit"]
    /\ ret' = NoRet
    /\ fitted' = alpha(xs, senses)
    /\ UNCHANGED <<cls, status, xs, senses, N, q, seen, args>>

\* DeltaNonLinearOptimizer.fit(method, **kwargs)
FitDelta ==
    /\ IsModel("DeltaNonLinearOptimizer") /\ Idle
    /\ \E method \in NlMethodArgs, absolute \in BOOLEAN :
         /\ call' = [NoCall EXCEPT !.op = "fit",
                        !.kw = [DefaultKw EXCEPT !.methods = method.val,
                                  !.absolute = IF absolute THEN "unset" ELSE "False"]]
         /\ IF nl_delta_ok(xs, method)
            THEN /\ fitted' = nl_delta(xs, senses, method, absolute)
                 /\ ret' = NoRet
            ELSE /\ fitted' = fitted
                 /\ ret' = [NoRet EXCEPT !.raised = "IndexError"]
    /\ UNCHANGED <<cls, status, xs, senses, N, q, seen, args>>

\* predict() of both models: self.alpha / self.alpha.sum() (self.delta for
\* the nonlinear one); the attribute does not exist before fit
Predict ==
    /\ (IsModel("SimpleLinearOptimizer") \/ IsModel("DeltaNonLinearOptimizer")) /\ Idle
    /\ call' = [NoCall EXCEPT !.op = "predict"]
    /\ ret' = IF fitted = <<>>
              THEN [NoRet EXCEPT !.raised = "AttributeError"]
              ELSE [NoRet EXCEPT !.share = percentage_allocation(fitted)]
    /\ UNCHANGED <<cls, status, xs, senses, N, q, fitted, seen, args>>

Next ==
    \/ NewLinear2DAllocation
    \/ NewBaseConstruct
    \/ Delta
    \/ Beta
    \/ Epsilon
    \/ Factor
    \/ Fit
    \/ FitDelta
    \/ Predict
    \/ Discard

Spec == Init /\ [][Next]_vars

\* the pipeline methods called in any order by a caller who compares the
\* triples of factor
NextFrame ==
    \/ NewLinear2DAllocation
    \/ Delta
    \/ Beta
    \/ Epsilon
    \/ FactorKeep
    \/ Discard

SpecFrame == Init /\ [][NextFrame]_vars

\* construction with the outlier keywords, followed by the pipeline
NextOutliers ==
    \/ NewLinear2DAllocationKw
    \/ Beta
    \/ Discard

SpecOutliers == Init /\ [][NextOutliers]_vars

(***************************************************************************)
(* Properties.                                                             *)
(***************************************************************************)
\* |a - b| <= 1e-9, both finite (the floating tolerance of the properties)
TolInv == Pow10(9)

Near(a, b) ==
    /\ IsFinite(a) /\ IsFinite(b)
    /\ LET e == RAbs(RSub(a, b)) IN ~(e[1] > 0 /\ e[2] \div e[1] < TolInv)

NearVec(v, w) == Len(v) = Len(w) /\ \A j \in 1..Len(v) : Near(v[j], w[j])

\* a valid input: an allocation with one sense per objective row
ValidInput == IsL2D /\ Len(senses) = Len(xs)

Returned(op) == call.op = op /\ ret.raised = "none"

\* factor called on the scenario with senses [1, -1], everything else default
ScenarioFactor ==
    /\ IsL2D /\ xs = ToFloat(Scenario) /\ senses = <<1, -1>>
    /\ Returned("factor")
    /\ call.kw = DefaultKw /\ call.index = 0 /\ call.appreciate

ScenarioBeta == <<R(0), <<20, 3>>, <<20, 3>>>>

\* C1 as stated: on the scenario, factor's share is [0, 0.5, 0.5] within
\* tolerance and the intermediate beta is [0, 20/3, 20/3].
C1_Stated ==
    ScenarioFactor =>
        /\ NearVec(ret.share, <<R(0), <<1, 2>>, <<1, 2>>>>)
        /\ NearVec(ret.beta, ScenarioBeta)

\* C1 amended: on the scenario, beta is [0, 20/3, 20/3], the raw weights are
\* beta divided by the driver mean(xs[0])/xs[0] = [2, 1, 2/3], that is
\* [0, 20/3, 10], and the share is [0, 0.4, 0.6].
C1_Amended ==
    ScenarioFactor =>
        /\ NearVec(ret.beta, ScenarioBeta)
        /\ NearVec(ret.raw, <<R(0), <<20, 3>>, R(10)>>)
        /\ NearVec(ret.share, <<R(0), <<2, 5>>, <<3, 5>>>>)

C1_Witness == ScenarioFactor /\ ret.share[3] = <<3, 5>>

\* C2: on every valid input for which factor returns a result, the entries
\* of the share sum to 1 (within tolerance); the sum is never nan or infinite.
C2_Stated ==
    (ValidInput /\ Returned("factor")) => Near(VSum(ret.share), R(1))

\* C3: on every valid input, no entry of the share factor returns is
\* negative (share[j] >= 0; read here as "not below 0", so that a nan share,
\* which is the subject of C2 and C4, does not count against it).
C3_Stated ==
    (ValidInput /\ Returned("factor")) =>
        \A j \in 1..Len(ret.share) : ~RLt(ret.share[j], R(0))

\* the raw appreciated weights the pending factor call computes
CallRaw ==
    appreciated_value(xs, senses, call.appreciate, call.index, "mean", <<>>, call.kw)

\* C4: when the raw appreciated weights sum to 0, factor raises
\* DegenerateAllocationError and returns no triple.
C4_Stated ==
    (ValidInput /\ call.op = "factor" /\ delta_ok(xs, call.kw) /\ VSum(CallRaw) = R(0)) =>
        /\ ret.raised = "DegenerateAllocationError"
        /\ ret.raw = <<>> /\ ret.share = <<>> /\ ret.rounded = <<>>

\* a < 1e-9 as floats compare
BelowClip(a) ==
    IF ~IsFinite(a) THEN a = NInf
    ELSE a[1] <= 0 \/ (a[2] + a[1] - 1) \div a[1] > TolInv

\* C5: the raw vector factor returns, and the share computed from it, hold
\* no value below 1e-9 other than 0.
C5_Stated ==
    (ValidInput /\ Returned("factor")) =>
        \A j \in 1..Len(ret.raw) :
            /\ BelowClip(ret.raw[j]) => ret.raw[j] = R(0)
            /\ BelowClip(ret.share[j]) => ret.share[j] = R(0)

\* C6: raw is beta / driver, driver = mean(xs[appreciate_index]) /
\* xs[appreciate_index], when appreciate is true, and beta itself when
\* appreciate is false.
C6_Stated ==
    (ValidInput /\ Returned("factor")) =>
        ret.raw = IF call.appreciate
                  THEN Arr([j \in 1..Len(ret.beta) |->
                          RDiv(ret.beta[j],
                               RDiv(VMean(xs[call.index + 1]), xs[call.index + 1][j]))])
                  ELSE ret.beta

\* C7: an optimizer whose senses sequence has another length than xs has
\* rows is not constructed, so every object, and every delta, beta or factor
\* result, has one sense per objective row.
C7_Stated ==
    /\ status = "ok" => Len(senses) = Len(xs)
    /\ (~Idle /\ ret.raised = "none") => Len(senses) = Len(xs)

\* the contribution of row i to candidate j, given the deviation d
C8_contribution(i, j, d) ==
    IF senses[i] = 1 THEN RSub(xs[i][j], d)
    ELSE IF RAdd(xs[i][j], d) = R(0) THEN R(0)
    ELSE RDiv(R(1), RAdd(xs[i][j], d))

\* C8: beta is, for every candidate j, the product over the objective rows i
\* of xs_ij - delta_ij (sense +1), 1 / (xs_ij + delta_ij) (sense -1) or 0
\* (sense -1 and xs_ij + delta_ij = 0): no infinity reaches the product.
C8_Theorem ==
    (ValidInput /\ Returned("beta") /\ call.ndigits = <<>>
                /\ Len(delta(xs, call.kw)) = Len(xs)) =>
        /\ Len(ret.beta) = q
        /\ \A j \in 1..q :
             /\ ret.beta[j] = RMul(C8_contribution(1, j, delta(xs, call.kw)[1][j]),
                                   C8_contribution(2, j, delta(xs, call.kw)[2][j]))
             /\ IsFinite(ret.beta[j])

\* a minimize row met a zero denominator and beta returned
C8_Witness ==
    /\ ValidInput /\ Returned("beta") /\ call.ndigits = <<>>
    /\ \E i \in 1..2, j \in 1..q :
         /\ senses[i] = -1
         /\ RAdd(xs[i][j], delta(xs, call.kw)[i][j]) = R(0)
         /\ ret.beta[j] = R(0)
    /\ \E j \in 1..q : ret.beta[j] # R(0)

\* the deviation of entry (i, j) from the reduction of its row
C9_deviation(i, j) == RSub(xs[i][j], describe_array(xs[i], call.kw.methods[i]))

C9_Shape == Len(ret.delta) = Len(xs) /\ \A i \in 1..Len(xs) : Len(ret.delta[i]) = q

\* C9 as stated (for one reduction per row): delta has the shape of xs; entry (i, j) is
\* scale_i * |xs_ij - reduction_i(xs_i)|, and with absolute=False it is
\* scale_i * (xs_ij - reduction_i(xs_i)), sign retained.
C9_Stated ==
    (IsL2D /\ Returned("delta") /\ Len(call.kw.methods) = Len(xs)) =>
        /\ C9_Shape
        /\ \A i \in 1..Len(xs), j \in 1..q :
             ret.delta[i][j] =
                RMul(R(call.kw.factors[i]),
                     IF call.kw.absolute = "False" THEN C9_deviation(i, j)
                     ELSE RAbs(C9_deviation(i, j)))

\* C9 amended (for one reduction per row): delta has the shape of xs and entry (i, j) is
\* scale_i * |xs_ij - reduction_i(xs_i)| whether or not the caller passes
\* absolute=False: the keyword is not read, no sign is retained.
C9_Amended ==
    (IsL2D /\ Returned("delta") /\ Len(call.kw.methods) = Len(xs)) =>
        /\ C9_Shape
        /\ \A i \in 1..Len(xs), j \in 1..q :
             ret.delta[i][j] = RMul(R(call.kw.factors[i]), RAbs(C9_deviation(i, j)))

\* delta returned for absolute=False with an entry below its row's mean
C9_Witness ==
    /\ IsL2D /\ Returned("delta") /\ call.kw.absolute = "False"
    /\ Len(call.kw.methods) = Len(xs)
    /\ \E i \in 1..Len(xs), j \in 1..q :
         RLt(C9_deviation(i, j), R(0)) /\ RLt(R(0), ret.delta[i][j])

\* v is rounded to nd decimal digits
C10_rounded(v, nd) == \A j \in 1..Len(v) : v[j] = RRound(v[j], nd)

\* C10: whenever ndigits is given to beta, ndigits = 0 included, every entry
\* of the returned vector is rounded to that number of decimal digits; when it
\* is None the vector is the unrounded product.
C10_Stated ==
    (ValidInput /\ Returned("beta")) =>
        IF call.ndigits # <<>>
        THEN C10_rounded(ret.beta, call.ndigits[1])
        ELSE ret.beta = beta(xs, senses, <<>>, call.kw)

\* C11: delta called with a sequence of reductions whose length differs from
\* the number of objective rows fails (dimension mismatch) and returns no
\* matrix: no row is dropped, no surplus reduction ignored, nothing broadcast.
C11_Stated ==
    (ValidInput /\ call.op = "delta" /\ Len(call.kw.methods) # Len(xs)) =>
        ret.raised # "none" /\ ret.delta = <<>>

\* C12: after construction from a rectangular xs with r rows and c columns,
\* N = r (the objectives, one sense each) and q = c (the candidates), for
\* Linear2DAllocation and for the BaseConstruct subclasses.
C12_Stated ==
    status = "ok" => (N = Len(xs) /\ q = Len(xs[1]))

\* keyword arguments that remove the deviation term: delta = 0
ZeroScaleKw == [DefaultKw EXCEPT !.factors = <<0, 0>>]

\* C16: for every 2-row xs and senses in {-1, +1}^2, the alpha that
\* SimpleLinearOptimizer.fit stores equals Linear2DAllocation.beta computed
\* with all scale factors 0, zero entries in a minimize row included.
C16_Stated ==
    (IsModel("SimpleLinearOptimizer") /\ Len(xs) = 2 /\ fitted # <<>>) =>
        fitted = beta(xs, senses, <<>>, ZeroScaleKw)

\* v is a finite integer multiple of the grid g
IsMultiple(v, g) == IsFinite(v) /\ RDiv(v, g)[2] = 1

\* v is no further than g/2 from w
WithinHalf(v, w, g) == ~RLt(RDiv(g, R(2)), RAbs(RSub(v, w)))

\* C14: every entry of the share_rounded that factor returns is an integer
\* multiple of the grid mround and a nearest such multiple to the share entry
\* of the same column: |share_rounded[j] - share[j]| <= mround / 2.
C14_Stated ==
    (ValidInput /\ Returned("factor")) =>
        \A j \in 1..Len(ret.rounded) :
            /\ IsMultiple(ret.rounded[j], call.mround)
            /\ WithinHalf(ret.rounded[j], ret.share[j], call.mround)

\* C14, the existential half: a factor call whose share sums to 1 while its
\* share_rounded does not
C14_NonConserving ==
    /\ ValidInput /\ Returned("factor")
    /\ VSum(ret.share) = R(1)
    /\ VSum(ret.rounded) # R(1)

\* the row of xs the constructor was given, and its two default quantiles
GivenRow(i) == ToFloat(args.xs)[i]

LowerQ(i) == quantile(GivenRow(i), OutlierBoundsDefault[1])

UpperQ(i) == quantile(GivenRow(i), OutlierBoundsDefault[2])

\* C15: constructed with drop_outliers=True and the default direction "both"
\* and bounds (0.25, 0.75), every entry below its row's lower quantile or
\* above its upper quantile is stored as 0 and every entry between the two is
\* stored unchanged; with drop_outliers False, xs is stored unchanged.
C15_Stated ==
    (IsL2D /\ args.xs # <<>>) =>
        /\ (args.drop_outliers /\ args.direction = "both") =>
               \A i \in 1..2 : \A j \in 1..Len(xs[i]) :
                   LET elem == GivenRow(i)[j]
                   IN  xs[i][j] = IF RLt(elem, LowerQ(i)) \/ RLt(UpperQ(i), elem)
                                  THEN R(0) ELSE elem
        /\ ~args.drop_outliers => xs = ToFloat(args.xs)

\* C13: on a constructed Linear2DAllocation every call of delta, beta,
\* epsilon or factor leaves xs, senses, N and q as they were, and a factor
\* call with the arguments of an earlier factor call returns the triple
\* (raw, share, share_rounded) that call returned, whatever was called between.
C13_Theorem ==
    [][IsL2D =>
          /\ UNCHANGED <<xs, senses, N, q>>
          /\ (seen.set /\ call' = DefaultFactorCall) => ret' = seen.ret]_vars

\* C13 seen: after the remembered factor call another method was called, and
\* the factor call made again since returned the remembered triple
C13_Witness ==
    /\ IsL2D /\ seen.set /\ seen.between
    /\ call = DefaultFactorCall /\ ret = seen.ret
    /\ ret.raised = "none" /\ ret.rounded # <<>>

====
